---- MODULE Spec2Model ----
(***************************************************************************)
(* State-machine model of the SaaS Landing API (src/main.py, src/schemas.py).*)
(*                                                                         *)
(* The three MongoDB collections are sequences of documents in insertion   *)
(* (natural) order.  A document is a function from field names to values.  *)
(* Optional values are encoded as sequences: None is <<>> and a present    *)
(* value v is <<v>>.  ObjectIds are drawn from a counter.  The clock is    *)
(* read only when a document is built: `now` is its last reading, and the  *)
(* next reading is any time from `now` on.                                 *)
(*                                                                         *)
(* Requests are served by the workers of Workers.  A handler that makes    *)
(* two store round trips (signup, create_post) is two steps of its worker, *)
(* so that other requests can run between its find_one and its insert.     *)
(* Every other handler makes one round trip and is one step.               *)
(*                                                                         *)
(* The store connection is taken to be established; request bodies are     *)
(* the ones that pass pydantic validation.  `last` is the response of the  *)
(* request answered last, with its request; `userSeen` records, for every  *)
(* User record, how many User records its signup's existence check saw.    *)
(*                                                                         *)
(* Spec is the whole API on one email and one slug; SpecAuth is the auth   *)
(* endpoints and SpecBlog the blog endpoints on all their inputs.          *)
(***************************************************************************)
EXTENDS Integers, Sequences, FiniteSets, TLC

\* ------------------------------------------------------------------ bounds
MaxUsers    == 2   \* documents the user collection grows to
MaxPosts    == 2   \* documents the blogpost collection grows to
MaxContacts == 2   \* documents the contactmessage collection grows to
MaxTime     == 2   \* last reading of the clock

\* ------------------------------------------------------------ input domains
Workers == {"w1", "w2"}
Emails  == {"a@x.io", "b@x.io"}
Hashes  == {"h1", "h2"}
Names   == {"Ann", "Bob"}
Salts   == {"s1", "s2"}
Slugs   == {"hello", "a"}

None == <<>>
Some(v) == <<v>>
Optional(S) == {None} \cup {Some(v) : v \in S}

\* SignUpPayload (main.py 40-44), three of the name/hash/salt combinations per
\* email; SignInPayload (main.py 46-48)
SignUpPayload ==
    {p \in [name : Names, email : Emails, password_hash : Hashes, salt : Salts] :
        <<p.name, p.password_hash, p.salt>> \in
            {<<"Ann", "h1", "s1">>, <<"Bob", "h2", "s2">>, <<"Ann", "h2", "s1">>}}
SignInPayload == [email : Emails, password_hash : Hashes]

\* the JSON bodies POST /blog accepts; an omitted field is None.  Three
\* variants of the fields other than the slug: everything optional omitted,
\* everything given, and an unpublished post with an empty tag list.
PostVariants ==
    {[title |-> "A", excerpt |-> None, tags |-> None, published |-> None],
     [title |-> "B", excerpt |-> Some("ex"), tags |-> Some(<<"t">>), published |-> Some(TRUE)],
     [title |-> "B", excerpt |-> None, tags |-> Some(<<>>), published |-> Some(FALSE)]}

CreatePostBody ==
    {[title |-> v.title, slug |-> slug, excerpt |-> v.excerpt, content |-> "c",
      author |-> "x", tags |-> v.tags, published |-> v.published] :
        v \in PostVariants, slug \in Slugs}

\* CreatePostPayload (main.py 84-91): published defaults to True
CreatePostPayload(body) ==
    [body EXCEPT !.published = IF body.published = None THEN TRUE ELSE body.published[1]]

\* ContactPayload (main.py 112-116)
ContactPayload ==
    [name : {"Ann"}, email : {"a@x.io"}, message : {"hi"}, subject : Optional({"s"})]

\* the inputs of the whole-API specification Spec: one email, one slug
SignUpCore     == {p \in SignUpPayload : /\ p.name = "Ann" /\ p.email = "a@x.io"
                                         /\ p.password_hash = "h1"}
SignInCore     == {p \in SignInPayload : p.email = "a@x.io"}
CreatePostCore == {b \in CreatePostBody : b.slug = "a" /\ b.published = Some(TRUE)}
ContactCore    == {p \in ContactPayload : p.subject = None}

VARIABLES user, blogpost, contactmessage, nextId, now, pc, inflight, last, userSeen

vars == <<user, blogpost, contactmessage, nextId, now, pc, inflight, last, userSeen>>

store == <<user, blogpost, contactmessage, nextId, userSeen>>

\* ------------------------------------------------------------------ store
\* str(ObjectId): the hexadecimal text of the identifier
ObjectIdStr(oid) == "oid" \o ToString(oid)

\* datetime.isoformat()
isoformat(t) == "2024-01-01T00:00:0" \o ToString(t)

Matches(doc, filter) ==
    \A k \in DOMAIN filter : k \in DOMAIN doc /\ doc[k] = filter[k]

\* collection.find(filter): the matching documents, in natural order
find(coll, filter) == SelectSeq(coll, LAMBDA d : Matches(d, filter))

\* collection.find_one(filter): the first match, or None
find_one(coll, filter) ==
    IF find(coll, filter) = <<>> THEN None ELSE Some(Head(find(coll, filter)))

\* get_documents(collection_name, filter): the matches as a list
get_documents(coll, filter) == find(coll, filter)

\* create_document(collection_name, data): the document it stores at time t
new_document(data, t) ==
    ("_id" :> nextId) @@ ("created_at" :> t) @@ data

\* db.list_collection_names(): a collection exists once it holds a document
list_collection_names ==
    SelectSeq(<<"user", "blogpost", "contactmessage">>,
              LAMBDA n : CASE n = "user" -> user # <<>>
                           [] n = "blogpost" -> blogpost # <<>>
                           [] OTHER -> contactmessage # <<>>)

\* ------------------------------------------------------------------ schemas
User(name, email, password_hash, salt) ==
    [name |-> name, email |-> email, password_hash |-> password_hash, salt |-> salt]

BlogPost(title, slug, excerpt, content, author, tags, published, published_at) ==
    [title |-> title, slug |-> slug, excerpt |-> excerpt, content |-> content,
     author |-> author, tags |-> tags, published |-> published,
     published_at |-> published_at]

ContactMessage(name, email, message, subject) ==
    [name |-> name, email |-> email, message |-> message, subject |-> subject]

\* ---------------------------------------------------------------- responses
Response(op, req, status, body) ==
    [op |-> op, req |-> req, status |-> status, body |-> body]

NoInflight == [seen |-> 0, req |-> None]

\* the fields of a stored document that hold a datetime (hasattr(v, "isoformat"))
DatetimeFields == {"created_at", "published_at"}

\* main.py 28-36
serialize_doc(doc) ==
    [k \in (DOMAIN doc \ {"_id"}) \cup (IF "_id" \in DOMAIN doc THEN {"id"} ELSE {}) |->
        IF k = "id" /\ "_id" \in DOMAIN doc THEN ObjectIdStr(doc["_id"])
        ELSE IF k = "published_at"
             THEN (IF doc[k] = None THEN None ELSE Some(isoformat(doc[k][1])))
        ELSE IF k \in DatetimeFields THEN isoformat(doc[k])
        ELSE doc[k]]

Init ==
    /\ user = <<>>
    /\ blogpost = <<>>
    /\ contactmessage = <<>>
    /\ nextId = 1
    /\ now = 1
    /\ pc = [w \in Workers |-> "idle"]
    /\ inflight = [w \in Workers |-> NoInflight]
    /\ last = Response("none", None, 0, None)
    /\ userSeen = <<>>

\* ------------------------------------------------------------------- clock
\* the readings a clock that last read `from` can give next
Readings(from) == from..MaxTime

\* ------------------------------------------------------------------ signup
\* mutant: the lookup also matches on the name
signup_existing_by_name(payload) ==
    find_one(user, [email |-> payload.email, name |-> payload.name])

\* mutant: the lookup reads another collection
signup_existing_elsewhere(payload) ==
    find_one(contactmessage, [email |-> payload.email])

\* main.py 53
signup_existing(payload) == find_one(user, [email |-> payload.email])

\* main.py 53-55: the existence check
signup_find(w, payload) ==
    /\ pc[w] = "idle"
    /\ IF signup_existing(payload) # None
       THEN /\ last' = Response("signup", payload, 400,
                                [detail |-> "Email already registered"])
            /\ UNCHANGED <<pc, inflight>>
       ELSE /\ pc' = [pc EXCEPT ![w] = "signup_create"]
            /\ inflight' = [inflight EXCEPT ![w] = [seen |-> Len(user), req |-> payload]]
            /\ UNCHANGED last
    /\ UNCHANGED <<store, now>>

signup_document(payload, t) ==
    new_document(User(payload.name, payload.email, payload.password_hash, payload.salt), t)

signup_result(payload, user_id) ==
    [id |-> user_id, email |-> payload.email, name |-> payload.name]

\* mutant: the insert looks the email up again and refuses a duplicate
signup_create_rechecked(w) ==
    /\ pc[w] = "signup_create"
    /\ Len(user) < MaxUsers
    /\ IF signup_existing(inflight[w].req) # None
       THEN /\ last' = Response("signup", inflight[w].req, 400,
                                [detail |-> "Email already registered"])
            /\ UNCHANGED <<store, now>>
       ELSE /\ \E t \in Readings(now) :
                 LET payload == inflight[w].req
                     doc == signup_document(payload, t)
                 IN /\ user' = Append(user, doc)
                    /\ last' = Response("signup", payload, 200,
                                        signup_result(payload, ObjectIdStr(doc["_id"])))
                    /\ now' = t
            /\ userSeen' = Append(userSeen, inflight[w].seen)
            /\ nextId' = nextId + 1
            /\ UNCHANGED <<blogpost, contactmessage>>
    /\ pc' = [pc EXCEPT ![w] = "idle"]
    /\ inflight' = [inflight EXCEPT ![w] = NoInflight]

\* main.py 56-58: build the User, insert it, answer
signup_create(w) ==
    /\ pc[w] = "signup_create"
    /\ Len(user) < MaxUsers
    /\ \E t \in Readings(now) :
          LET payload == inflight[w].req
              doc == signup_document(payload, t)
          IN /\ user' = Append(user, doc)
             /\ last' = Response("signup", payload, 200,
                                 signup_result(payload, ObjectIdStr(doc["_id"])))
             /\ now' = t
    /\ userSeen' = Append(userSeen, inflight[w].seen)
    /\ nextId' = nextId + 1
    /\ pc' = [pc EXCEPT ![w] = "idle"]
    /\ inflight' = [inflight EXCEPT ![w] = NoInflight]
    /\ UNCHANGED <<blogpost, contactmessage>>

\* ------------------------------------------------------------------ signin
\* mutant: the stored hash is not compared
signin_response_unchecked(payload) ==
    LET existing == find_one(user, [email |-> payload.email])
    IN IF existing = None
       THEN Response("signin", payload, 404, [detail |-> "User not found"])
       ELSE Response("signin", payload, 200,
                     [id |-> ObjectIdStr(existing[1]["_id"]),
                      email |-> existing[1]["email"],
                      name |-> existing[1]["name"]])

\* main.py 60-67
signin_response(payload) ==
    LET existing == find_one(user, [email |-> payload.email])
    IN IF existing = None
       THEN Response("signin", payload, 404, [detail |-> "User not found"])
       ELSE IF existing[1]["password_hash"] # payload.password_hash
       THEN Response("signin", payload, 401, [detail |-> "Invalid credentials"])
       ELSE Response("signin", payload, 200,
                     [id |-> ObjectIdStr(existing[1]["_id"]),
                      email |-> existing[1]["email"],
                      name |-> existing[1]["name"]])

\* mutant: a successful signin records a session on the User record
signin_with_session(w, payload) ==
    /\ pc[w] = "idle"
    /\ last' = signin_response(payload)
    /\ user' = IF last'.status = 200
               THEN [i \in 1..Len(user) |->
                        IF ObjectIdStr(user[i]["_id"]) = last'.body.id
                        THEN ("session" :> "open") @@ user[i] ELSE user[i]]
               ELSE user
    /\ UNCHANGED <<blogpost, contactmessage, nextId, userSeen, now, pc, inflight>>

signin(w, payload) ==
    /\ pc[w] = "idle"
    /\ last' = signin_response(payload)
    /\ UNCHANGED <<store, now, pc, inflight>>

\* -------------------------------------------------------------------- blog
\* main.py 74: x.get("published_at") or x.get("created_at")
sort_key(x) ==
    IF x["published_at"] # None THEN x["published_at"][1] ELSE x["created_at"]

\* list.sort(key=..., reverse=True): stable, largest key first
RECURSIVE sort_reverse(_)
sort_reverse(posts) ==
    IF posts = <<>> THEN <<>>
    ELSE LET x == posts[Len(posts)]
             sorted == sort_reverse(SubSeq(posts, 1, Len(posts) - 1))
             ahead == SelectSeq(sorted, LAMBDA y : sort_key(y) >= sort_key(x))
             behind == SelectSeq(sorted, LAMBDA y : sort_key(y) < sort_key(x))
         IN ahead \o <<x>> \o behind

\* mutant: the published filter is dropped
list_posts_response_unfiltered ==
    LET posts == sort_reverse(get_documents(blogpost, <<>>))
    IN Response("list_posts", None, 200,
                [i \in 1..Len(posts) |-> serialize_doc(posts[i])])

\* mutant: the list is returned in the store's order
list_posts_response_unsorted ==
    LET posts == get_documents(blogpost, [published |-> TRUE])
    IN Response("list_posts", None, 200,
                [i \in 1..Len(posts) |-> serialize_doc(posts[i])])

\* main.py 71-75
list_posts_response ==
    LET posts == sort_reverse(get_documents(blogpost, [published |-> TRUE]))
    IN Response("list_posts", None, 200,
                [i \in 1..Len(posts) |-> serialize_doc(posts[i])])

list_posts(w) ==
    /\ pc[w] = "idle"
    /\ last' = list_posts_response
    /\ UNCHANGED <<store, now, pc, inflight>>

\* main.py 77-82
get_post_response(slug) ==
    LET post == find_one(blogpost, [slug |-> slug])
    IN IF post = None
       THEN Response("get_post", slug, 404, [detail |-> "Post not found"])
       ELSE Response("get_post", slug, 200, serialize_doc(post[1]))

get_post(w, slug) ==
    /\ pc[w] = "idle"
    /\ last' = get_post_response(slug)
    /\ UNCHANGED <<store, now, pc, inflight>>

\* mutant: the lookup also matches on the title
create_post_existing_by_title(payload) ==
    find_one(blogpost, [slug |-> payload.slug, title |-> payload.title])

\* main.py 95
create_post_existing(payload) == find_one(blogpost, [slug |-> payload.slug])

\* main.py 95-96: the existence check
create_post_find(w, body) ==
    /\ pc[w] = "idle"
    /\ LET payload == CreatePostPayload(body)
       IN IF create_post_existing(payload) # None
          THEN /\ last' = Response("create_post", body, 400,
                                   [detail |-> "Slug already exists"])
               /\ UNCHANGED <<pc, inflight>>
          ELSE /\ pc' = [pc EXCEPT ![w] = "create_post_create"]
               /\ inflight' = [inflight EXCEPT ![w] = [seen |-> Len(blogpost), req |-> body]]
               /\ UNCHANGED last
    /\ UNCHANGED <<store, now>>

\* mutant: published_at is set whatever the flag
create_post_published_at_always(payload, utcnow) == Some(utcnow)

\* main.py 105: datetime.utcnow() if payload.published else None
create_post_published_at(payload, utcnow) ==
    IF payload.published THEN Some(utcnow) ELSE None

\* main.py 103: payload.tags or []
create_post_tags(payload) ==
    IF payload.tags = None \/ payload.tags[1] = <<>> THEN <<>> ELSE payload.tags[1]

\* main.py 97-106
create_post_document(payload, utcnow, t) ==
    new_document(BlogPost(payload.title, payload.slug, payload.excerpt, payload.content,
                          payload.author, create_post_tags(payload), payload.published,
                          create_post_published_at(payload, utcnow)), t)

\* main.py 97-108: build the BlogPost, insert it, answer
create_post_create(w) ==
    /\ pc[w] = "create_post_create"
    /\ Len(blogpost) < MaxPosts
    /\ \E utcnow \in Readings(now) : \E t \in Readings(utcnow) :
          LET payload == CreatePostPayload(inflight[w].req)
              doc == create_post_document(payload, utcnow, t)
          IN /\ blogpost' = Append(blogpost, doc)
             /\ last' = Response("create_post", inflight[w].req, 200,
                                 [id |-> ObjectIdStr(doc["_id"]), slug |-> payload.slug])
             /\ now' = t
    /\ nextId' = nextId + 1
    /\ pc' = [pc EXCEPT ![w] = "idle"]
    /\ inflight' = [inflight EXCEPT ![w] = NoInflight]
    /\ UNCHANGED <<user, contactmessage, userSeen>>

\* ----------------------------------------------------------------- contact
\* mutant: the identifier is the message's position in its collection
submit_contact_document_numbered(payload, t) ==
    [new_document(ContactMessage(payload.name, payload.email, payload.message,
                                 payload.subject), t)
        EXCEPT !["_id"] = Len(contactmessage) + 1]

submit_contact_document(payload, t) ==
    new_document(ContactMessage(payload.name, payload.email, payload.message,
                                payload.subject), t)

\* main.py 118-122
submit_contact(w, payload) ==
    /\ pc[w] = "idle"
    /\ Len(contactmessage) < MaxContacts
    /\ \E t \in Readings(now) :
          LET doc == submit_contact_document(payload, t)
          IN /\ contactmessage' = Append(contactmessage, doc)
             /\ last' = Response("submit_contact", payload, 200,
                                 [id |-> ObjectIdStr(doc["_id"]), status |-> "received"])
             /\ now' = t
    /\ nextId' = nextId + 1
    /\ UNCHANGED <<user, blogpost, pc, inflight, userSeen>>

\* ------------------------------------------------------------------ health
CollectionsShown == 10

Take(s, n) == SubSeq(s, 1, IF Len(s) < n THEN Len(s) ELSE n)

\* main.py 126-158, with the connection established
test_database_response(url_set, name_set) ==
    Response("test_database", None, 200,
             [backend |-> "Running",
              database |-> "Connected & Working",
              database_url |-> IF url_set THEN "Set" ELSE "Not Set",
              database_name |-> IF name_set THEN "Set" ELSE "Not Set",
              connection_status |-> "Connected",
              collections |-> Take(list_collection_names, CollectionsShown)])

test_database(w, url_set, name_set) ==
    /\ pc[w] = "idle"
    /\ last' = test_database_response(url_set, name_set)
    /\ UNCHANGED <<store, now, pc, inflight>>

\* main.py 22-24
read_root(w) ==
    /\ pc[w] = "idle"
    /\ last' = Response("read_root", None, 200, [message |-> "SaaS Landing API running"])
    /\ UNCHANGED <<store, now, pc, inflight>>

\* ----------------------------------------------------------- specifications
\* the whole API, two workers
Next ==
    \/ \E w \in Workers, payload \in SignUpCore : signup_find(w, payload)
    \/ \E w \in Workers : signup_create(w)
    \/ \E w \in Workers, payload \in SignInCore : signin(w, payload)
    \/ \E w \in Workers : list_posts(w)
    \/ \E w \in Workers, slug \in Slugs : get_post(w, slug)
    \/ \E w \in Workers, body \in CreatePostCore : create_post_find(w, body)
    \/ \E w \in Workers : create_post_create(w)
    \/ \E w \in Workers, payload \in ContactCore : submit_contact(w, payload)
    \/ \E w \in Workers, url_set \in BOOLEAN, name_set \in BOOLEAN :
          test_database(w, url_set, name_set)
    \/ \E w \in Workers : read_root(w)

Spec == Init /\ [][Next]_vars

\* the auth endpoints, every signup and signin payload
NextAuth ==
    \/ \E w \in Workers, payload \in SignUpPayload : signup_find(w, payload)
    \/ \E w \in Workers : signup_create(w)
    \/ \E w \in Workers, payload \in SignInPayload : signin(w, payload)

SpecAuth == Init /\ [][NextAuth]_vars

\* the blog endpoints, every body of POST /blog
NextBlog ==
    \/ \E w \in Workers, body \in CreatePostBody : create_post_find(w, body)
    \/ \E w \in Workers : create_post_create(w)
    \/ \E w \in Workers : list_posts(w)
    \/ \E w \in Workers, slug \in Slugs : get_post(w, slug)

SpecBlog == Init /\ [][NextBlog]_vars

\* ------------------------------------------------------------------ claims
Min(S) == CHOOSE i \in S : \A j \in S : i <= j

\* the positions of the User records with email e
UsersWith(e) == {i \in 1..Len(user) : user[i]["email"] = e}

IsPrefix(s, t) == Len(s) <= Len(t) /\ SubSeq(t, 1, Len(s)) = s

\* the step answers a request: it leaves a response other than the last one
Answered ==
    \/ last'.op # last.op
    \/ last'.status # last.status
    \/ last'.req # last.req
    \/ last'.body # last.body

\* C1: a signup whose existence check finds no User record with its email
\* passes the check, and its insert adds exactly one User record with that
\* email and answers 200 with the new identifier; a signup whose check runs
\* when a record with its email exists is answered 400, whatever its other
\* fields, and inserts nothing.
C1Step ==
    /\ \A w \in Workers :
        /\ (pc[w] = "idle" /\ pc'[w] = "signup_create") =>
              /\ UsersWith(inflight'[w].req.email) = {}
              /\ user' = user
        /\ (pc[w] = "signup_create" /\ pc'[w] = "idle") =>
              LET req == inflight[w].req
                  doc == user'[Len(user')]
              IN /\ Len(user') = Len(user) + 1
                 /\ IsPrefix(user, user')
                 /\ doc["email"] = req.email /\ doc["name"] = req.name
                 /\ doc["password_hash"] = req.password_hash /\ doc["salt"] = req.salt
                 /\ last' = Response("signup", req, 200,
                                     [id |-> ObjectIdStr(doc["_id"]), email |-> req.email,
                                      name |-> req.name])
    /\ (last'.op = "signup" /\ last'.status # 200 /\ Answered) =>
          /\ last'.status = 400
          /\ UsersWith(last'.req.email) # {}
          /\ user' = user
    /\ user' # user => \E w \in Workers : pc[w] = "signup_create" /\ pc'[w] = "idle"

\* C1: C1Step on every step
C1Theorem == [][C1Step]_vars

C1Witness ==
    /\ last.op = "signup" /\ last.status = 400
    /\ Cardinality(UsersWith(last.req.email)) = 1
    /\ \E i \in UsersWith(last.req.email) :
          /\ user[i]["name"] # last.req.name
          /\ user[i]["password_hash"] # last.req.password_hash
          /\ user[i]["salt"] # last.req.salt

\* C2 as stated: signin with the email and hash of any successful signup
\* (any stored User record) returns that signup's identifier.
C2Original ==
    \A i \in 1..Len(user) :
        LET r == signin_response([email |-> user[i]["email"],
                                  password_hash |-> user[i]["password_hash"]])
        IN r.status = 200 /\ r.body.id = ObjectIdStr(user[i]["_id"])

\* what signin has to answer to payload p
SigninExpected(p) ==
    IF UsersWith(p.email) = {}
    THEN Response("signin", p, 404, [detail |-> "User not found"])
    ELSE LET first == user[Min(UsersWith(p.email))]
         IN IF first["password_hash"] = p.password_hash
            THEN Response("signin", p, 200,
                          [id |-> ObjectIdStr(first["_id"]), email |-> p.email,
                           name |-> first["name"]])
            ELSE Response("signin", p, 401, [detail |-> "Invalid credentials"])

\* C2 (amended): signin answers from the first-stored User record with the
\* email: 404 when there is none, 401 when that record's password_hash differs
\* from the supplied one, else 200 with that record's identifier; so signin
\* with the email and hash of a successful signup returns that signup's
\* identifier when its record is the first stored with that email.
C2Theorem ==
    /\ last.op = "signin" => last = SigninExpected(last.req)
    /\ \A p \in SignInPayload : signin_response(p) = SigninExpected(p)
    /\ \A i \in 1..Len(user) :
          i = Min(UsersWith(user[i]["email"])) =>
             LET r == signin_response([email |-> user[i]["email"],
                                       password_hash |-> user[i]["password_hash"]])
             IN r.status = 200 /\ r.body.id = ObjectIdStr(user[i]["_id"])

C2Witness ==
    /\ last.op = "signin" /\ last.status = 200
    /\ Len(user) = 1
    /\ last.body.id = ObjectIdStr(user[1]["_id"])
    /\ \E p \in SignInPayload : signin_response(p).status = 401
    /\ \E p \in SignInPayload : signin_response(p).status = 404

\* C7 as stated: no two User records have the same email.
C7Original ==
    \A i, j \in 1..Len(user) : user[i]["email"] = user[j]["email"] => i = j

\* C7 (amended): two User records have the same email only when the signup
\* that inserted the later one ran its existence check before the earlier one
\* was inserted; signups whose check and insert are not interleaved with
\* another signup of the same email keep the emails unique.
C7Theorem ==
    \A i, j \in 1..Len(user) :
        (i < j /\ user[i]["email"] = user[j]["email"]) => userSeen[j] < i

C7Witness ==
    /\ Len(user) = 2
    /\ userSeen = <<0, 1>>
    /\ user[1]["email"] # user[2]["email"]
    /\ last.op = "signup" /\ last.status = 400

\* the positions of the BlogPost records with slug s, and of the published ones
PostsWith(s) == {i \in 1..Len(blogpost) : blogpost[i]["slug"] = s}

PublishedPosts == {i \in 1..Len(blogpost) : blogpost[i]["published"] = TRUE}

\* the external form of a stored BlogPost, field by field
PostView(d) ==
    [id |-> ObjectIdStr(d["_id"]), title |-> d["title"], slug |-> d["slug"],
     excerpt |-> d["excerpt"], content |-> d["content"], author |-> d["author"],
     tags |-> d["tags"], published |-> d["published"],
     published_at |-> IF d["published_at"] = None THEN None
                      ELSE Some(isoformat(d["published_at"][1])),
     created_at |-> isoformat(d["created_at"])]

\* what GET /blog/{slug} has to answer
GetPostExpected(s) ==
    IF PostsWith(s) = {}
    THEN Response("get_post", s, 404, [detail |-> "Post not found"])
    ELSE Response("get_post", s, 200, PostView(blogpost[Min(PostsWith(s))]))

\* C3: once a BlogPost with slug s is stored, a create whose existence check
\* runs afterwards is answered 400 and stores nothing, no step changes the
\* first post stored with slug s, and GET /blog/s answers with that post, every
\* field as the create request gave it.
C3Inv ==
    /\ \A s \in Slugs : PostsWith(s) # {} => get_post_response(s) = GetPostExpected(s)
    /\ (last.op = "get_post" /\ PostsWith(last.req) # {}) => last = GetPostExpected(last.req)

C3Step ==
    /\ \A w \in Workers :
        /\ (pc[w] = "idle" /\ pc'[w] = "create_post_create") =>
              /\ PostsWith(inflight'[w].req.slug) = {}
              /\ blogpost' = blogpost
        /\ (pc[w] = "create_post_create" /\ pc'[w] = "idle") =>
              LET req == inflight[w].req
                  doc == blogpost'[Len(blogpost')]
              IN /\ Len(blogpost') = Len(blogpost) + 1
                 /\ doc["title"] = req.title /\ doc["slug"] = req.slug
                 /\ doc["content"] = req.content /\ doc["author"] = req.author
                 /\ doc["excerpt"] = req.excerpt
                 /\ doc["tags"] = (IF req.tags = None THEN <<>> ELSE req.tags[1])
                 /\ doc["published"] = (req.published # Some(FALSE))
                 /\ last' = Response("create_post", req, 200,
                                     [id |-> ObjectIdStr(doc["_id"]), slug |-> req.slug])
    /\ (last'.op = "create_post" /\ last'.status # 200 /\ Answered) =>
          /\ last'.status = 400
          /\ PostsWith(last'.req.slug) # {}
          /\ blogpost' = blogpost
    /\ \A s \in Slugs :
          PostsWith(s) # {} =>
             /\ Len(blogpost') >= Min(PostsWith(s))
             /\ \A i \in 1..Min(PostsWith(s)) : blogpost'[i] = blogpost[i]

\* C3: C3Inv in every state and C3Step on every step
C3Theorem == []C3Inv /\ [][C3Step]_vars

C3Witness ==
    /\ last.op = "create_post" /\ last.status = 400
    /\ Cardinality(PostsWith(last.req.slug)) = 1
    /\ \E i \in PostsWith(last.req.slug) :
          /\ blogpost[i]["title"] # last.req.title
          /\ blogpost[i]["published"] = FALSE
          /\ get_post_response(last.req.slug).status = 200
          /\ get_post_response(last.req.slug).body.title = blogpost[i]["title"]

\* C4: GET /blog answers with exactly the stored posts whose published flag
\* is true; GET /blog/{slug} answers with a stored post with that slug whatever
\* its flag, and 404 only when no post has that slug.
C4Theorem ==
    /\ last.op = "list_posts" =>
          /\ last.status = 200
          /\ Len(last.body) = Cardinality(PublishedPosts)
          /\ {last.body[k] : k \in 1..Len(last.body)} =
                {PostView(blogpost[i]) : i \in PublishedPosts}
    /\ last.op = "get_post" =>
          /\ last.status \in {200, 404}
          /\ last.status = 404 <=> PostsWith(last.req) = {}
          /\ last.status = 200 =>
                \E i \in PostsWith(last.req) : last.body = PostView(blogpost[i])
    /\ \A s \in Slugs :
          get_post_response(s).status = 404 <=> PostsWith(s) = {}

C4Witness ==
    /\ last.op = "list_posts"
    /\ Len(last.body) = 1
    /\ Len(blogpost) = 2
    /\ \E i \in 1..Len(blogpost) :
          /\ blogpost[i]["published"] = FALSE
          /\ get_post_response(blogpost[i]["slug"]).status = 200
          /\ get_post_response(blogpost[i]["slug"]).body.published = FALSE

\* the sort key of the stored post with external identifier id
KeyOfId(id) ==
    LET d == blogpost[CHOOSE i \in 1..Len(blogpost) : ObjectIdStr(blogpost[i]["_id"]) = id]
    IN IF d["published_at"] # None THEN d["published_at"][1] ELSE d["created_at"]

NewestFirst(body) ==
    \A k \in 1..(Len(body) - 1) : KeyOfId(body[k].id) >= KeyOfId(body[k + 1].id)

\* C5: in the list GET /blog returns, the sort key (published_at, or
\* created_at when published_at is absent) of every entry is greater than or
\* equal to the sort key of the entry after it.
C5Theorem ==
    /\ last.op = "list_posts" => NewestFirst(last.body)
    /\ NewestFirst(list_posts_response.body)

C5Witness ==
    /\ last.op = "list_posts"
    /\ Len(last.body) = 2
    /\ KeyOfId(last.body[1].id) > KeyOfId(last.body[2].id)
    /\ last.body[1].id = ObjectIdStr(blogpost[2]["_id"])

\* C9: every stored BlogPost has published_at set exactly when its published
\* flag is true; create_post stores published = true unless the request says
\* false, sets published_at to a reading of the clock taken during the create
\* exactly when published is true, and no step changes a stored post.
C9Inv ==
    \A i \in 1..Len(blogpost) :
        blogpost[i]["published_at"] # None <=> blogpost[i]["published"] = TRUE

C9Step ==
    /\ IsPrefix(blogpost, blogpost')
    /\ \A w \in Workers :
          (pc[w] = "create_post_create" /\ pc'[w] = "idle") =>
             LET req == inflight[w].req
                 doc == blogpost'[Len(blogpost')]
             IN /\ Len(blogpost') = Len(blogpost) + 1
                /\ doc["published"] = (req.published \in {None, Some(TRUE)})
                /\ doc["published"] =>
                      \E t \in now..now' : doc["published_at"] = Some(t)
                /\ ~doc["published"] => doc["published_at"] = None

\* C9: C9Inv in every state and C9Step on every step
C9Theorem == []C9Inv /\ [][C9Step]_vars

C9Witness ==
    /\ last.op = "create_post" /\ last.status = 200 /\ last.req.published = None
    /\ Len(blogpost) = 2
    /\ blogpost[1]["published"] = FALSE /\ blogpost[1]["published_at"] = None
    /\ blogpost[2]["published"] = TRUE /\ blogpost[2]["published_at"] # None

\* the external identifiers of the stored documents
StoredIds ==
    {ObjectIdStr(user[i]["_id"]) : i \in 1..Len(user)}
        \cup {ObjectIdStr(blogpost[i]["_id"]) : i \in 1..Len(blogpost)}
        \cup {ObjectIdStr(contactmessage[i]["_id"]) : i \in 1..Len(contactmessage)}

\* C6: every identifier a response carries is the identifier of a stored
\* document, and every answered POST /contact stores one ContactMessage with
\* the request's fields, whatever is stored already, and answers 200 with
\* status "received" and an identifier that no stored document had before.
C6Inv ==
    /\ (last.status = 200 /\ last.op \in {"signup", "signin", "create_post",
                                           "submit_contact", "get_post"}) =>
          last.body.id \in StoredIds
    /\ last.op = "list_posts" =>
          \A k \in 1..Len(last.body) : last.body[k].id \in StoredIds

C6Step ==
    (last'.op = "submit_contact" /\ Answered) =>
        LET doc == contactmessage'[Len(contactmessage')]
        IN /\ Len(contactmessage') = Len(contactmessage) + 1
           /\ IsPrefix(contactmessage, contactmessage')
           /\ doc["name"] = last'.req.name /\ doc["email"] = last'.req.email
           /\ doc["message"] = last'.req.message /\ doc["subject"] = last'.req.subject
           /\ last'.status = 200
           /\ last'.body = [id |-> ObjectIdStr(doc["_id"]), status |-> "received"]
           /\ last'.body.id \notin StoredIds

\* C6: C6Inv in every state and C6Step on every step
C6Theorem == []C6Inv /\ [][C6Step]_vars

C6Witness ==
    /\ last.op = "submit_contact"
    /\ Len(contactmessage) = 2
    /\ contactmessage[1]["message"] = contactmessage[2]["message"]
    /\ contactmessage[1]["email"] = contactmessage[2]["email"]
    /\ contactmessage[1]["name"] = contactmessage[2]["name"]
    /\ contactmessage[1]["subject"] = contactmessage[2]["subject"]
    /\ user # <<>> /\ blogpost # <<>>

\* C8: the existence check of signup and of create_post is a step of its own
\* that changes nothing in the store, and the insert that follows it adds the
\* record and answers 200 whatever the store holds by then; two requests with
\* the same email, or the same slug, whose checks both run before either
\* insert both succeed.
C8Step ==
    \A w \in Workers :
        /\ (pc[w] = "idle" /\ pc'[w] # "idle") =>
              /\ pc'[w] \in {"signup_create", "create_post_create"}
              /\ UNCHANGED <<user, blogpost, contactmessage, nextId>>
        /\ (pc[w] = "signup_create" /\ pc'[w] # "signup_create") =>
              /\ pc'[w] = "idle"
              /\ Len(user') = Len(user) + 1
              /\ user'[Len(user')]["email"] = inflight[w].req.email
              /\ last'.op = "signup" /\ last'.status = 200
              /\ last'.req = inflight[w].req
        /\ (pc[w] = "create_post_create" /\ pc'[w] # "create_post_create") =>
              /\ pc'[w] = "idle"
              /\ Len(blogpost') = Len(blogpost) + 1
              /\ blogpost'[Len(blogpost')]["slug"] = inflight[w].req.slug
              /\ last'.op = "create_post" /\ last'.status = 200
              /\ last'.req = inflight[w].req

\* C8: C8Step on every step
C8Theorem == [][C8Step]_vars

C8Witness ==
    /\ Len(user) = 2 /\ user[1]["email"] = user[2]["email"]
    /\ userSeen = <<0, 0>>
    /\ Len(blogpost) = 2 /\ blogpost[1]["slug"] = blogpost[2]["slug"]
    /\ last.status = 200

\* C10: every step leaves each collection as it was or appends one record to
\* one collection; a record is appended to user, blogpost or contactmessage
\* only by a signup, create_post or submit_contact answered 200, which appends
\* exactly one; a step answered by any other handler, or with any other
\* status, leaves the three collections unchanged.
C10Step ==
    /\ IsPrefix(user, user')
    /\ IsPrefix(blogpost, blogpost')
    /\ IsPrefix(contactmessage, contactmessage')
    /\ Len(user') + Len(blogpost') + Len(contactmessage')
          <= Len(user) + Len(blogpost) + Len(contactmessage) + 1
    /\ Len(user') > Len(user) => last'.op = "signup" /\ last'.status = 200
    /\ Len(blogpost') > Len(blogpost) => last'.op = "create_post" /\ last'.status = 200
    /\ Len(contactmessage') > Len(contactmessage) =>
          last'.op = "submit_contact" /\ last'.status = 200
    /\ (last'.status = 200 /\ Answered) =>
          /\ last'.op = "signup" => Len(user') = Len(user) + 1
          /\ last'.op = "create_post" => Len(blogpost') = Len(blogpost) + 1
          /\ last'.op = "submit_contact" => Len(contactmessage') = Len(contactmessage) + 1
    /\ (\/ last'.op \in {"signin", "list_posts", "get_post", "test_database", "read_root"}
        \/ last'.status # 200
        \/ ~Answered) =>
          UNCHANGED <<user, blogpost, contactmessage>>

\* C10: C10Step on every step
C10Theorem == [][C10Step]_vars

C10Witness ==
    /\ last.op = "signin" /\ last.status = 401
    /\ user # <<>> /\ blogpost # <<>> /\ contactmessage # <<>>
====
